---- MODULE Spec2Model ----
(***************************************************************************)
(* Model of the filter-driven search pipeline of src/pages/Index.tsx:      *)
(* the persisted filter slot, the in-memory React state of the Index       *)
(* component, the search invocations in flight and the load-more window.  *)
(*                                                                         *)
(* Rendering model: one React event handler, together with the re-render  *)
(* and the passive effects it causes, is one atomic step (single UI         *)
(* thread, batched state updates).  The only suspension point is the       *)
(* `await searchVideos(...)` inside performSearch; its continuation is a   *)
(* separate step.  `toast` has a stable identity, so performSearch is      *)
(* created once, on the first render, and keeps that render's              *)
(* visibleCount (10) in its closure.                                       *)
(***************************************************************************)
EXTENDS Integers, Sequences, FiniteSets, TLC

(* ---------------------------- bounds ----------------------------------- *)
\* total number of search invocations in one behaviour
MaxCalls == 4
\* total number of user requests (filter change, clear, load more)
MaxRequests == 3
\* size of the largest result list the search capability returns
MaxResults == 25

(* ------------------------ program constants ---------------------------- *)
\* useState(10): the initial window size
InitialVisibleCount == 10
\* visibleCount + 10 in handleLoadMore
LoadMoreIncrement == 10

Min(a, b) == IF a < b THEN a ELSE b

(* --------------------------- FilterSet --------------------------------- *)
FilterKeys == <<"language", "source", "durationBand", "year">>

KeySet == {FilterKeys[i] : i \in 1..Len(FilterKeys)}

\* the (key, value) pairs the filter controls deliver; "" means unconstrained
FilterInputs == {<<"language", "en">>, <<"language", "hi">>, <<"year", "2024">>}

(* ------------------------- JavaScript values --------------------------- *)
\* A string, also the string token of a JSON text
Str(s) == [t |-> "string", s |-> s]

\* null, true, false; also the literal token of a JSON text
Lit(s) == [t |-> "literal", s |-> s]

\* a number, by its canonical text; also the number token of a JSON text
Num(s) == [t |-> "number", s |-> s]

Undefined == [t |-> "undefined", s |-> "undefined"]

\* An object is the list of its <<key, value>> members in enumeration order.
Obj(members) == [t |-> "object", m |-> members]

initialFilters ==
  Obj(<< <<"language", Str("")>>, <<"source", Str("")>>,
         <<"durationBand", Str("")>>, <<"year", Str("")>> >>)

\* the integer-like keys "0".."9": IndexKeys[i] is the key of the number i - 1
IndexKeys == <<"0", "1", "2", "3", "4", "5", "6", "7", "8", "9">>

IsIndexKey(k) == \E i \in 1..Len(IndexKeys) : IndexKeys[i] = k

IndexOf(k) == CHOOSE i \in 1..Len(IndexKeys) : IndexKeys[i] = k

\* the characters of the strings of the model
Chars(s) ==
  CASE s = "" -> <<>>
    [] s = "a" -> <<"a">>
    [] s = "b" -> <<"b">>
    [] s = "x" -> <<"x">>
    [] s = "en" -> <<"e", "n">>
    [] s = "hi" -> <<"h", "i">>
    [] s = "2024" -> <<"2", "0", "2", "4">>

\* the own enumerable members of a value: those of an object, the indexed
\* characters of a string, none for null, a boolean, a number or undefined
Members(v) ==
  IF v.t = "object" THEN v.m
  ELSE IF v.t = "string"
    THEN [i \in 1..Len(Chars(v.s)) |-> <<IndexKeys[i], Str(Chars(v.s)[i])>>]
  ELSE <<>>

HasKey(obj, k) == \E i \in 1..Len(Members(obj)) : Members(obj)[i][1] = k

\* obj[k] of an object or a string, undefined for a missing key
Get(obj, k) ==
  IF HasKey(obj, k)
    THEN Members(obj)[CHOOSE i \in 1..Len(Members(obj)) : Members(obj)[i][1] = k][2]
    ELSE Undefined

\* defining property k on a member list: an existing key keeps its position,
\* a new integer-like key goes among the integer-like keys in ascending order
\* (they are enumerated first), any other new key goes last
DefineMember(ms, k, v) ==
  IF \E i \in 1..Len(ms) : ms[i][1] = k
    THEN [i \in 1..Len(ms) |-> IF ms[i][1] = k THEN <<k, v>> ELSE ms[i]]
  ELSE IF IsIndexKey(k)
    THEN LET p == Cardinality({i \in 1..Len(ms) :
                                 IsIndexKey(ms[i][1]) /\ IndexOf(ms[i][1]) < IndexOf(k)})
         IN SubSeq(ms, 1, p) \o << <<k, v>> >> \o SubSeq(ms, p + 1, Len(ms))
  ELSE Append(ms, <<k, v>>)

\* { ...obj, [k]: v }
SpreadSet(obj, k, v) == Obj(DefineMember(Members(obj), k, v))

(* ------------------------------ JSON ----------------------------------- *)
\* The text of the slot is a sequence of JSON tokens: punctuation, strings,
\* literals, numbers, and words that are no JSON at all.
LBrace == [t |-> "punct", s |-> "{"]
RBrace == [t |-> "punct", s |-> "}"]
Colon  == [t |-> "punct", s |-> ":"]
Comma  == [t |-> "punct", s |-> ","]
Word(s) == [t |-> "word", s |-> s]

RECURSIVE StringifyValue(_)
RECURSIVE StringifyMembers(_)
\* the members of an object, comma separated; members that are undefined are left out
StringifyMembers(obj) ==
  LET ms == SelectSeq(obj, LAMBDA m : m[2] # Undefined)
  IN IF ms = <<>> THEN <<>>
     ELSE LET m == <<Str(ms[1][1]), Colon>> \o StringifyValue(ms[1][2])
          IN IF Len(ms) = 1 THEN m ELSE m \o <<Comma>> \o StringifyMembers(Tail(ms))

StringifyValue(v) ==
  IF v.t = "object" THEN <<LBrace>> \o StringifyMembers(v.m) \o <<RBrace>>
  ELSE IF v.t = "undefined" THEN <<Word("undefined")>>
  ELSE <<v>>

\* JSON.stringify(v); for undefined, the text setItem makes of its result
JSONstringify(v) == StringifyValue(v)

ParseError == [ok |-> FALSE, val |-> Undefined, next |-> 0]

RECURSIVE ParseValue(_, _)
RECURSIVE ParseMembers(_, _, _)
\* the members of an object from token i on, up to its closing brace
ParseMembers(text, i, acc) ==
  IF i + 2 > Len(text) THEN ParseError
  ELSE IF text[i].t # "string" \/ text[i + 1] # Colon THEN ParseError
  ELSE LET v == ParseValue(text, i + 2)
       IN IF ~v.ok \/ v.next > Len(text) THEN ParseError
          ELSE LET acc2 == DefineMember(acc, text[i].s, v.val)
               IN IF text[v.next] = RBrace
                    THEN [ok |-> TRUE, val |-> Obj(acc2), next |-> v.next + 1]
                  ELSE IF text[v.next] = Comma THEN ParseMembers(text, v.next + 1, acc2)
                  ELSE ParseError

\* the JSON value that starts at token i, and the position after it
ParseValue(text, i) ==
  IF i > Len(text) THEN ParseError
  ELSE IF text[i].t \in {"string", "literal", "number"}
    THEN [ok |-> TRUE, val |-> text[i], next |-> i + 1]
  ELSE IF text[i] = LBrace
    THEN IF i + 1 <= Len(text) /\ text[i + 1] = RBrace
           THEN [ok |-> TRUE, val |-> Obj(<<>>), next |-> i + 2]
           ELSE ParseMembers(text, i + 1, <<>>)
  ELSE ParseError

\* JSON.parse: the value the whole text denotes, or a SyntaxError
JSONparse(text) ==
  LET r == ParseValue(text, 1)
  IN IF r.ok /\ r.next = Len(text) + 1 THEN r ELSE ParseError

(* ------------------------- persisted slot ------------------------------ *)
\* localStorage['disha-filters']: absent (getItem gives null) or a text
NoItem == [present |-> FALSE, text |-> <<>>]
Item(text) == [present |-> TRUE, text |-> text]

\* what the slot may hold when the page is opened
InitialSlots ==
  { NoItem,
    Item(<<>>),
    Item(<<LBrace, Str("language"), Colon>>),
    Item(JSONstringify(Obj(<< <<"language", Str("hi")>> >>))),
    Item(JSONstringify(SpreadSet(initialFilters, "language", Str("en")))) }

\* `stored ? JSON.parse(stored) : initialFilters` took the JSON.parse branch and it returned
ParsedFromStorage(slot, readable) ==
  /\ readable
  /\ slot.present
  /\ slot.text # <<>>
  /\ JSONparse(slot.text).ok

\* variant: a SyntaxError of JSON.parse is not caught, nothing is restored
getStoredFilters_NoFallback(slot, readable) ==
  IF readable /\ slot.present /\ slot.text # <<>>
    THEN JSONparse(slot.text).val
    ELSE initialFilters

getStoredFilters(slot, readable) ==
  IF ~readable THEN initialFilters
  ELSE IF ~slot.present \/ slot.text = <<>> THEN initialFilters
  ELSE IF JSONparse(slot.text).ok THEN JSONparse(slot.text).val
  ELSE initialFilters

\* variant: only the constrained (non-empty) fields are written
storeFilters_OmitsEmpty(slot, writable, f) ==
  IF writable
    THEN Item(JSONstringify(Obj(SelectSeq(Members(f), LAMBDA m : m[2] # Str("")))))
    ELSE slot

\* localStorage.setItem inside try/catch: a failing write leaves the slot alone
storeFilters(slot, writable, f) ==
  IF writable THEN Item(JSONstringify(f)) ELSE slot

(* --------------------------- result lists ------------------------------ *)
\* the n results of search invocation t, in provider order
Results(t, n) == [i \in 1..n |-> <<t, i>>]

ResultSizes == {0, 5, MaxResults}

\* Array.prototype.slice(0, n) for n >= 0
Slice(s, n) == SubSeq(s, 1, Min(n, Len(s)))

(* ------------------------------ state ---------------------------------- *)
VARIABLES
  storage,          \* the persisted slot localStorage['disha-filters']
  storageReadable,  \* localStorage.getItem does not throw
  storageWritable,  \* localStorage.setItem does not throw
  filters,          \* useState: the in-memory FilterSet
  filtersRef,       \* identity of the filters object: "initialFilters" or "fresh"
  allVideos,        \* useState: the ResultSet
  displayedVideos,  \* useState: the list handed to VideoGrid
  isLoading,        \* useState: the loading flag
  visibleCount,     \* useState: the window size
  mounted,          \* the mount effect has run
  calls,            \* every performSearch invocation so far, in invocation order
  toasts,           \* number of messages handed to toast()
  requests,         \* number of user requests handled so far
  lastRequest       \* the user request handled last

vars == <<storage, storageReadable, storageWritable, filters, filtersRef, allVideos,
          displayedVideos, isLoading, visibleCount, mounted, calls, toasts, requests, lastRequest>>

Request(op, key, value) == [op |-> op, key |-> key, value |-> value]

\* the state after the first render of Index, before its effects run
Init ==
  /\ storage \in InitialSlots
  /\ storageReadable \in BOOLEAN
  /\ storageWritable \in BOOLEAN
  \* a localStorage that cannot be read cannot be written and shows no item
  /\ ~storageReadable => (~storageWritable /\ storage = NoItem)
  /\ filters = getStoredFilters(storage, storageReadable)
  /\ filtersRef = IF ParsedFromStorage(storage, storageReadable)
                    THEN "fresh" ELSE "initialFilters"
  /\ allVideos = <<>>
  /\ displayedVideos = <<>>
  /\ isLoading = FALSE
  /\ visibleCount = InitialVisibleCount
  /\ mounted = FALSE
  /\ calls = <<>>
  /\ toasts = 0
  /\ requests = 0
  /\ lastRequest = Request("none", "", "")

(* --------------------------- performSearch ----------------------------- *)
\* the synchronous part of performSearch(f): searchVideos(f) is called and awaited
performSearch(cs, f, by) ==
  Append(cs, [filters |-> f, by |-> by, state |-> "pending"])

\* variant: performSearch re-created on every render, seeing the current visibleCount
ClosureVisibleCount_Current == visibleCount

\* the visibleCount performSearch sees: the one of the render that created it
ClosureVisibleCount == InitialVisibleCount

Pending == {t \in 1..Len(calls) : calls[t].state = "pending"}

\* the awaited searchVideos of invocation t resolves with n results
performSearchResolved(t, n) ==
  /\ t \in Pending
  /\ allVideos' = Results(t, n)
  /\ displayedVideos' = Slice(Results(t, n), ClosureVisibleCount)
  /\ isLoading' = FALSE
  /\ calls' = [calls EXCEPT ![t].state = "ok"]
  /\ UNCHANGED <<storage, storageReadable, storageWritable, filters, filtersRef,
                 visibleCount, mounted, toasts, requests, lastRequest>>

\* variant: the catch branch clears the display
performSearchRejected_Clears(t) ==
  /\ t \in Pending
  /\ toasts' = toasts + 1
  /\ isLoading' = FALSE
  /\ allVideos' = <<>>
  /\ displayedVideos' = <<>>
  /\ calls' = [calls EXCEPT ![t].state = "failed"]
  /\ UNCHANGED <<storage, storageReadable, storageWritable, filters, filtersRef,
                 visibleCount, mounted, requests, lastRequest>>

\* variant: setIsLoading(false) only on the success path
performSearchRejected_StaysLoading(t) ==
  /\ t \in Pending
  /\ toasts' = toasts + 1
  /\ calls' = [calls EXCEPT ![t].state = "failed"]
  /\ UNCHANGED <<storage, storageReadable, storageWritable, filters, filtersRef, isLoading,
                 allVideos, displayedVideos, visibleCount, mounted, requests, lastRequest>>

\* the awaited searchVideos of invocation t rejects
performSearchRejected(t) ==
  /\ t \in Pending
  /\ toasts' = toasts + 1
  /\ isLoading' = FALSE
  /\ calls' = [calls EXCEPT ![t].state = "failed"]
  /\ UNCHANGED <<storage, storageReadable, storageWritable, filters, filtersRef,
                 allVideos, displayedVideos, visibleCount, mounted, requests, lastRequest>>

(* ------------------------------ effect --------------------------------- *)
\* useEffect(() => performSearch(filters), [filters, performSearch]) after a render:
\* it runs when the filters object is not the one of the previous render
useEffectSearch(cs, changed, f) ==
  IF changed THEN performSearch(cs, f, "effect") ELSE cs

\* variant: the mount effect searches with the defaults instead of the state
Mount_Defaults ==
  /\ ~mounted
  /\ mounted' = TRUE
  /\ calls' = useEffectSearch(calls, TRUE, initialFilters)
  /\ isLoading' = TRUE
  /\ UNCHANGED <<storage, storageReadable, storageWritable, filters, filtersRef,
                 allVideos, displayedVideos, visibleCount, toasts, requests, lastRequest>>

\* the first run of the effect, after the first render
Mount ==
  /\ ~mounted
  /\ mounted' = TRUE
  /\ calls' = useEffectSearch(calls, TRUE, filters)
  /\ isLoading' = TRUE
  /\ UNCHANGED <<storage, storageReadable, storageWritable, filters, filtersRef,
                 allVideos, displayedVideos, visibleCount, toasts, requests, lastRequest>>

(* ----------------------------- handlers -------------------------------- *)
\* variant: the handler persists the FilterSet of its closure, not the new one
handleFilterChange_StoresOld(key, value) ==
  /\ mounted
  /\ requests < MaxRequests
  /\ Len(calls) + 2 <= MaxCalls
  /\ LET newFilters == SpreadSet(filters, key, Str(value))
     IN /\ filters' = newFilters
        /\ filtersRef' = "fresh"
        /\ storage' = storeFilters(storage, storageWritable, filters)
        /\ calls' = useEffectSearch(performSearch(calls, newFilters, "handleFilterChange"),
                                    TRUE, filters')
  /\ isLoading' = TRUE
  /\ requests' = requests + 1
  /\ lastRequest' = Request("filterChange", key, value)
  /\ UNCHANGED <<storageReadable, storageWritable, allVideos, displayedVideos,
                 visibleCount, mounted, toasts>>

\* variant: a failed write of the slot is reported to the user
handleFilterChange_NotifiesWriteFailure(key, value) ==
  /\ mounted
  /\ requests < MaxRequests
  /\ Len(calls) + 2 <= MaxCalls
  /\ LET newFilters == SpreadSet(filters, key, Str(value))
     IN /\ filters' = newFilters
        /\ filtersRef' = "fresh"
        /\ storage' = storeFilters(storage, storageWritable, newFilters)
        /\ calls' = useEffectSearch(performSearch(calls, newFilters, "handleFilterChange"),
                                    TRUE, filters')
  /\ toasts' = IF storageWritable THEN toasts ELSE toasts + 1
  /\ isLoading' = TRUE
  /\ requests' = requests + 1
  /\ lastRequest' = Request("filterChange", key, value)
  /\ UNCHANGED <<storageReadable, storageWritable, allVideos, displayedVideos,
                 visibleCount, mounted>>

handleFilterChange(key, value) ==
  /\ mounted
  /\ requests < MaxRequests
  /\ Len(calls) + 2 <= MaxCalls
  /\ LET newFilters == SpreadSet(filters, key, Str(value))
     IN /\ filters' = newFilters
        /\ filtersRef' = "fresh"
        /\ storage' = storeFilters(storage, storageWritable, newFilters)
        /\ calls' = useEffectSearch(performSearch(calls, newFilters, "handleFilterChange"),
                                    TRUE, filters')
  /\ isLoading' = TRUE
  /\ requests' = requests + 1
  /\ lastRequest' = Request("filterChange", key, value)
  /\ UNCHANGED <<storageReadable, storageWritable, allVideos, displayedVideos,
                 visibleCount, mounted, toasts>>

\* variant: the filters effect does not run after a clear
handleClearFilters_NoEffect ==
  /\ mounted
  /\ requests < MaxRequests
  /\ Len(calls) + 1 <= MaxCalls
  /\ filters' = initialFilters
  /\ filtersRef' = "initialFilters"
  /\ storage' = storeFilters(storage, storageWritable, initialFilters)
  /\ requests' = requests + 1
  /\ lastRequest' = Request("clear", "", "")
  /\ UNCHANGED <<storageReadable, storageWritable, allVideos, displayedVideos,
                 visibleCount, mounted, toasts, calls, isLoading>>

handleClearFilters ==
  /\ mounted
  /\ requests < MaxRequests
  /\ Len(calls) + 1 <= MaxCalls
  /\ filters' = initialFilters
  /\ filtersRef' = "initialFilters"
  /\ storage' = storeFilters(storage, storageWritable, initialFilters)
  /\ calls' = useEffectSearch(calls, filtersRef # "initialFilters", filters')
  /\ isLoading' = IF filtersRef # "initialFilters" THEN TRUE ELSE isLoading
  /\ requests' = requests + 1
  /\ lastRequest' = Request("clear", "", "")
  /\ UNCHANGED <<storageReadable, storageWritable, allVideos, displayedVideos,
                 visibleCount, mounted, toasts>>

\* the condition under which the Load More button is rendered
LoadMoreOffered == Len(allVideos) > Len(displayedVideos)

\* variant: load more also re-runs the search
handleLoadMore_Researches ==
  /\ mounted
  /\ requests < MaxRequests
  /\ Len(calls) + 1 <= MaxCalls
  /\ LoadMoreOffered
  /\ ~isLoading
  /\ LET newCount == visibleCount + LoadMoreIncrement
     IN /\ visibleCount' = newCount
        /\ displayedVideos' = Slice(allVideos, newCount)
  /\ calls' = performSearch(calls, filters, "handleLoadMore")
  /\ isLoading' = TRUE
  /\ requests' = requests + 1
  /\ lastRequest' = Request("loadMore", "", "")
  /\ UNCHANGED <<storage, storageReadable, storageWritable, filters, filtersRef,
                 allVideos, mounted, toasts>>

\* variant: the next page is appended to the displayed list
handleLoadMore_Appends ==
  /\ mounted
  /\ requests < MaxRequests
  /\ LoadMoreOffered
  /\ ~isLoading
  /\ LET newCount == visibleCount + LoadMoreIncrement
     IN /\ visibleCount' = newCount
        /\ displayedVideos' =
             displayedVideos \o SubSeq(allVideos, visibleCount + 1, Min(newCount, Len(allVideos)))
  /\ requests' = requests + 1
  /\ lastRequest' = Request("loadMore", "", "")
  /\ UNCHANGED <<storage, storageReadable, storageWritable, filters, filtersRef,
                 allVideos, isLoading, mounted, calls, toasts>>

\* variant: the list is sliced with the visibleCount of the closure, not newCount
handleLoadMore_StaleSlice ==
  /\ mounted
  /\ requests < MaxRequests
  /\ LoadMoreOffered
  /\ ~isLoading
  /\ LET newCount == visibleCount + LoadMoreIncrement
     IN /\ visibleCount' = newCount
        /\ displayedVideos' = Slice(allVideos, visibleCount)
  /\ requests' = requests + 1
  /\ lastRequest' = Request("loadMore", "", "")
  /\ UNCHANGED <<storage, storageReadable, storageWritable, filters, filtersRef,
                 allVideos, isLoading, mounted, calls, toasts>>

\* a click on the Load More button (rendered, and not disabled)
handleLoadMore ==
  /\ mounted
  /\ requests < MaxRequests
  /\ LoadMoreOffered
  /\ ~isLoading
  /\ LET newCount == visibleCount + LoadMoreIncrement
     IN /\ visibleCount' = newCount
        /\ displayedVideos' = Slice(allVideos, newCount)
  /\ requests' = requests + 1
  /\ lastRequest' = Request("loadMore", "", "")
  /\ UNCHANGED <<storage, storageReadable, storageWritable, filters, filtersRef,
                 allVideos, isLoading, mounted, calls, toasts>>

\* The steps of the running page.  handleClearFilters is defined in Index but
\* handed to no element (FilterPanel gets filters and onFilterChange only), so
\* no step of the page calls it.
Next ==
  \/ Mount
  \/ \E kv \in FilterInputs : handleFilterChange(kv[1], kv[2])
  \/ handleLoadMore
  \/ \E t \in 1..Len(calls), n \in ResultSizes : performSearchResolved(t, n)
  \/ \E t \in 1..Len(calls) : performSearchRejected(t)

Spec == Init /\ [][Next]_vars

(* ------------- the page with handleClearFilters wired to a control ----- *)
\* Index with the clear handler called by some control: what the handler
\* does when it is called, which the page as written never does.
NextWithClear ==
  \/ Next
  \/ handleClearFilters

SpecWithClear == Init /\ [][NextWithClear]_vars

(* ------------- getStoredFilters and storeFilters as functions ---------- *)
\* field values of the FilterSets handed to storeFilters
StoreValues == {"", "a", "b"}

\* every FilterSet with the four fields, each a string of StoreValues
FilterSets ==
  { Obj(<< <<"language", Str(a)>>, <<"source", Str(b)>>,
           <<"durationBand", Str(c)>>, <<"year", Str(d)>> >>) :
      a \in StoreValues, b \in StoreValues, c \in StoreValues, d \in StoreValues }

\* slot contents for the two functions: those of InitialSlots, and JSON texts
\* that are no FilterSet
StoreSlots ==
  InitialSlots \cup
  { Item(<<Lit("null")>>),
    Item(<<Str("hi")>>),
    Item(<<Num("0")>>),
    Item(<<LBrace, Str("language"), Colon, Lit("null"), RBrace>>),
    Item(<<LBrace, Str("language"), Colon, Str("hi"), Comma,
           Str("year"), Colon, Num("2024"), RBrace>>),
    Item(<<LBrace, Str("language"), Colon, Str("hi"), Comma,
           Str("1"), Colon, Str("x"), RBrace>>) }

\* the inputs of the two functions: any slot, any read and write failure, and
\* in filters the FilterSet that storeFilters is to be called with
StoreInit ==
  /\ storage \in StoreSlots
  /\ storageReadable \in BOOLEAN
  /\ storageWritable \in BOOLEAN
  /\ filters \in FilterSets
  /\ filtersRef = "fresh"
  /\ allVideos = <<>>
  /\ displayedVideos = <<>>
  /\ isLoading = FALSE
  /\ visibleCount = InitialVisibleCount
  /\ mounted = FALSE
  /\ calls = <<>>
  /\ toasts = 0
  /\ requests = 0
  /\ lastRequest = Request("none", "", "")

\* storeFilters(filters) is applied: nothing but the slot changes
Save ==
  /\ storage' = storeFilters(storage, storageWritable, filters)
  /\ lastRequest' = Request("save", "", "")
  /\ UNCHANGED <<storageReadable, storageWritable, filters, filtersRef, allVideos,
                 displayedVideos, isLoading, visibleCount, mounted, calls, toasts, requests>>

\* getStoredFilters() is applied and its value held in filters, as
\* useState(getStoredFilters()) does
Load ==
  /\ filters' = getStoredFilters(storage, storageReadable)
  /\ filtersRef' = IF ParsedFromStorage(storage, storageReadable)
                     THEN "fresh" ELSE "initialFilters"
  /\ lastRequest' = Request("load", "", "")
  /\ UNCHANGED <<storage, storageReadable, storageWritable, allVideos, displayedVideos,
                 isLoading, visibleCount, mounted, calls, toasts, requests>>

StoreNext ==
  \/ Save
  \/ Load

StoreSpec == StoreInit /\ [][StoreNext]_vars

(* ------------------------ steps, as seen from outside ------------------ *)
\* invocation t leaves the pending state in this step
ResolvesOk(t) == t \in Pending /\ calls'[t].state = "ok"

Rejects(t) == t \in Pending /\ calls'[t].state = "failed"

FilterChangeStep == requests' = requests + 1 /\ lastRequest'.op = "filterChange"

ClearStep == requests' = requests + 1 /\ lastRequest'.op = "clear"

LoadMoreStep == requests' = requests + 1 /\ lastRequest'.op = "loadMore"

\* the invocations started by this step
Started == (Len(calls) + 1)..Len(calls')

\* the invocation whose results are the ResultSet (0: none, or an empty list)
Shown == IF allVideos = <<>> THEN 0 ELSE allVideos[1][1]

DefaultText ==
  <<LBrace, Str("language"), Colon, Str(""), Comma, Str("source"), Colon, Str(""), Comma,
    Str("durationBand"), Colon, Str(""), Comma, Str("year"), Colon, Str(""), RBrace>>

HindiText ==
  <<LBrace, Str("language"), Colon, Str("hi"), Comma, Str("source"), Colon, Str(""), Comma,
    Str("durationBand"), Colon, Str(""), Comma, Str("year"), Colon, Str(""), RBrace>>

(* ------------------------------ claims --------------------------------- *)

\* C1: last-write-wins.  Once the most recent invocation B has resolved
\* successfully with a non-empty list, the ResultSet is B's list: no earlier
\* invocation A that resolves after B overwrites it.
C1_LastWriteWins ==
  (calls # <<>> /\ calls[Len(calls)].state = "ok" /\ allVideos # <<>>)
     => Shown = Len(calls)

\* C2 (as stated): a clear-filters request resets and persists the FilterSet
\* and starts no search; the displayed results stay those from before the clear.
C2_ClearStartsNoSearch ==
  [][ClearStep =>
       /\ filters' = initialFilters
       /\ calls' = calls
       /\ UNCHANGED <<allVideos, displayedVideos>>]_vars

\* C2 (amended): a clear-filters request resets the FilterSet to the defaults
\* and persists it (when the write works) and leaves the displayed results
\* alone; the handler calls no search itself, but the filters effect starts
\* exactly one search, with the default FilterSet, whenever the FilterSet object
\* before the clear is not the initialFilters object, and none when it is.
C2_ClearSearchesThroughEffect ==
  [][ClearStep =>
       /\ filters' = initialFilters
       /\ storage' = IF storageWritable THEN Item(DefaultText) ELSE storage
       /\ UNCHANGED <<allVideos, displayedVideos, visibleCount>>
       /\ \A t \in 1..Len(calls) : calls'[t] = calls[t]
       /\ IF filtersRef = "initialFilters"
            THEN calls' = calls /\ isLoading' = isLoading
            ELSE /\ Len(calls') = Len(calls) + 1
                 /\ calls'[Len(calls')].filters = initialFilters
                 /\ calls'[Len(calls')].by = "effect"
                 /\ calls'[Len(calls')].state = "pending"
                 /\ isLoading']_vars

\* a clear after a filter change: results from before the clear on display,
\* the defaults persisted, and the effect's search with the defaults in flight
C2_Witness ==
  /\ lastRequest.op = "clear"
  /\ storage = Item(DefaultText)
  /\ allVideos # <<>>
  /\ Len(calls) >= 3
  /\ calls[Len(calls)].filters = initialFilters
  /\ calls[Len(calls)].state = "pending"
  /\ calls[Len(calls) - 1].by = "effect"
  /\ calls[Len(calls) - 1].filters # initialFilters

\* C3: a search that completes successfully resets visibleCount to 10; apart
\* from that visibleCount changes only by +10, in a load-more request.
C3_VisibleCountReset ==
  [][/\ (\E t \in 1..Len(calls) : ResolvesOk(t)) => visibleCount' = InitialVisibleCount
     /\ (~(\E t \in 1..Len(calls) : ResolvesOk(t)) /\ visibleCount' # visibleCount)
          => (LoadMoreStep /\ visibleCount' = visibleCount + 10)]_vars

\* C4: the displayed list is ResultSet[0 : min(visibleCount, |ResultSet|)]
C4_DisplayedIsWindow ==
  displayedVideos = SubSeq(allVideos, 1, Min(visibleCount, Len(allVideos)))

\* C5: a failing search leaves allVideos, displayedVideos and visibleCount as
\* they were and sends exactly one notification; no other step sends one.
C5_FailureKeepsResults ==
  [][IF \E t \in 1..Len(calls) : Rejects(t)
       THEN /\ UNCHANGED <<allVideos, displayedVideos, visibleCount>>
            /\ toasts' = toasts + 1
            /\ Cardinality({t \in 1..Len(calls) : Rejects(t)}) = 1
       ELSE toasts' = toasts]_vars

\* a search has failed while a grown window of earlier results is on display
C5_Witness ==
  /\ \E t \in 1..Len(calls) : calls[t].state = "failed"
  /\ toasts = Cardinality({t \in 1..Len(calls) : calls[t].state = "failed"})
  /\ visibleCount > InitialVisibleCount
  /\ Len(displayedVideos) > InitialVisibleCount

\* C6: a filter change (key, value) on FilterSet f gives f' = f with that one
\* field set; the slot then holds the serialization of f' (when the write
\* works) and every search the request starts carries exactly f'.
C6_FilterChangePersistsAndSearches ==
  [][FilterChangeStep =>
       LET k == lastRequest'.key
           v == lastRequest'.value
       IN /\ Get(filters', k) = Str(v)
          /\ \A j \in KeySet \ {k} : Get(filters', j) = Get(filters, j)
          /\ storageWritable =>
               /\ storage'.present
               /\ JSONparse(storage'.text).ok
               /\ JSONparse(storage'.text).val = filters'
               /\ (filters = initialFilters /\ k = "language" /\ v = "hi")
                    => storage'.text = HindiText
          /\ ~storageWritable => storage' = storage
          /\ Started # {}
          /\ \A t \in Started : calls'[t].filters = filters' /\ calls'[t].state = "pending"
          /\ \A t \in 1..Len(calls) : calls'[t] = calls[t]]_vars

\* language set to "hi" on the default FilterSet: slot and searches carry it
C6_Witness ==
  /\ lastRequest = Request("filterChange", "language", "hi")
  /\ storage = Item(HindiText)
  /\ Get(filters, "language") = Str("hi")
  /\ Len(calls) >= 2
  /\ calls[Len(calls)].filters = filters
  /\ calls[Len(calls)].state = "pending"

\* C7: a load-more request grows the window and nothing else: no search is
\* started, and filters, the slot, allVideos and isLoading are unchanged.
C7_LoadMoreOnlyGrowsWindow ==
  [][LoadMoreStep =>
       /\ UNCHANGED <<filters, storage, allVideos, isLoading, calls>>
       /\ visibleCount' > visibleCount
       /\ Len(displayedVideos') >= Len(displayedVideos)]_vars

\* a second load-more request has been handled
C7_Witness ==
  /\ lastRequest.op = "loadMore"
  /\ visibleCount = InitialVisibleCount + 2 * LoadMoreIncrement
  /\ Len(displayedVideos) = MaxResults

\* C8: the load-more action is offered iff visibleCount < |ResultSet|
C8_OfferedIffCountBelowSize ==
  LoadMoreOffered <=> visibleCount < Len(allVideos)

\* C9: after a successful search producing R the displayed window is the
\* first min(10, |R|) items of R, whatever the window size was before.
C9_WindowAfterSearch ==
  [][\A t \in 1..Len(calls) : ResolvesOk(t) =>
       /\ Len(allVideos') \in ResultSizes
       /\ \A i \in 1..Len(allVideos') : allVideos'[i] = <<t, i>>
       /\ Len(displayedVideos') = Min(10, Len(allVideos'))
       /\ \A i \in 1..Len(displayedVideos') : displayedVideos'[i] = allVideos'[i]]_vars

\* a search has succeeded after the window had grown past 10
C9_Witness ==
  /\ visibleCount > InitialVisibleCount
  /\ Len(allVideos) = MaxResults
  /\ Len(displayedVideos) = InitialVisibleCount
  /\ Shown > 1

\* C10: before any user request, mounting starts exactly one search, with the
\* FilterSet restored from the slot (the defaults when the slot is unreadable,
\* absent, empty or unparsable), and isLoading holds exactly while it is pending.
C10_MountSearchesOnce ==
  requests = 0 =>
    IF ~mounted
      THEN calls = <<>>
      ELSE /\ Len(calls) = 1
           /\ IF storageReadable /\ storage.present /\ JSONparse(storage.text).ok
                THEN JSONstringify(calls[1].filters) = storage.text
                ELSE calls[1].filters = initialFilters
           /\ isLoading <=> calls[1].state = "pending"

\* the mount search ran with a restored, non-default FilterSet and has resolved
C10_Witness ==
  /\ requests = 0
  /\ mounted
  /\ Get(calls[1].filters, "language") = Str("en")
  /\ calls[1].state = "ok"
  /\ ~isLoading

\* the slot gives getStoredFilters nothing to restore
NothingStored ==
  \/ ~storageReadable
  \/ ~storage.present
  \/ ~JSONparse(storage.text).ok

\* C11: load never fails: with the slot absent, holding a text JSON.parse
\* rejects (empty or malformed), or unreadable, the FilterSet it returns is
\* the default one.
C11_LoadFallsBackToDefaults ==
  (lastRequest.op = "load" /\ NothingStored)
     => /\ filters = initialFilters
        /\ Len(Members(filters)) = 4
        /\ \A k \in KeySet : Get(filters, k) = Str("")

\* a FilterSet was saved, then loaded while reads throw: the defaults come back
C11_Witness ==
  /\ lastRequest.op = "load"
  /\ ~storageReadable
  /\ storage.present
  /\ JSONparse(storage.text).ok
  /\ JSONparse(storage.text).val # initialFilters
  /\ filters = initialFilters

\* C12: the in-memory FilterSet always has the four fields language, source,
\* durationBand and year, each a string, whatever the slot held at startup.
C12_AllFieldsPresent ==
  /\ filters.t = "object"
  /\ Len(Members(filters)) = 4
  /\ \A k \in KeySet : HasKey(filters, k) /\ Get(filters, k).t = "string"

\* C13: while storage writes fail, a filter change or a clear still updates
\* the in-memory FilterSet, sends no notification and leaves the slot alone,
\* and a filter change still starts its searches with the new FilterSet.
C13_WriteFailureSwallowed ==
  [][~storageWritable =>
       /\ FilterChangeStep =>
            /\ Get(filters', lastRequest'.key) = Str(lastRequest'.value)
            /\ \A j \in KeySet \ {lastRequest'.key} : Get(filters', j) = Get(filters, j)
            /\ toasts' = toasts
            /\ storage' = storage
            /\ Started # {}
            /\ \A t \in Started : calls'[t].filters = filters'
       /\ ClearStep =>
            /\ filters' = initialFilters
            /\ toasts' = toasts
            /\ storage' = storage]_vars

\* writes fail, language was set to "hi": memory has it, the slot does not
C13_Witness ==
  /\ ~storageWritable
  /\ storageReadable
  /\ lastRequest = Request("filterChange", "language", "hi")
  /\ Get(filters, "language") = Str("hi")
  /\ getStoredFilters(storage, storageReadable) # filters
  /\ toasts = 0
  /\ calls[Len(calls)].filters = filters

\* C14: no failure is fatal: with no invocation in flight the loading flag is
\* false, a filter change stays possible after a failure, it starts a search,
\* and the success of a search replaces the ResultSet.
C14_NoFailureIsFatal ==
  /\ [](Pending = {} => ~isLoading)
  /\ []((/\ \E t \in 1..Len(calls) : calls[t].state = "failed"
         /\ requests < MaxRequests
         /\ Len(calls) + 2 <= MaxCalls)
          => \A kv \in FilterInputs : ENABLED handleFilterChange(kv[1], kv[2]))
  /\ [][(\E a \in 1..Len(calls) : calls[a].state = "failed") =>
          /\ FilterChangeStep => (Started # {} /\ isLoading')
          /\ \A t \in 1..Len(calls) : ResolvesOk(t) =>
               \A i \in 1..Len(allVideos') : allVideos'[i] = <<t, i>>]_vars

\* the mount search failed, a later filter change searched again and its
\* results are the ResultSet, with nothing in flight and the flag down
C14_Witness ==
  /\ calls # <<>>
  /\ calls[1].state = "failed"
  /\ Pending = {}
  /\ ~isLoading
  /\ Shown > 1
  /\ calls[Shown].state = "ok"
  /\ calls[Shown].by = "handleFilterChange"

\* the displayed list is the first Len(displayedVideos) items of the ResultSet
DisplayedIsPrefix ==
  /\ Len(displayedVideos) <= Len(allVideos)
  /\ \A i \in 1..Len(displayedVideos) : displayedVideos[i] = allVideos[i]

\* C15: the displayed list is an order-preserving prefix of the current
\* ResultSet, and a load-more request never decreases visibleCount.
C15_DisplayedIsPrefixOfResults ==
  /\ []DisplayedIsPrefix
  /\ [][LoadMoreStep => visibleCount' >= visibleCount]_vars

\* a load-more on a ResultSet that superseded an earlier one
C15_Witness ==
  /\ lastRequest.op = "loadMore"
  /\ Shown > 1
  /\ Len(allVideos) = MaxResults
  /\ Len(displayedVideos) = InitialVisibleCount + LoadMoreIncrement

\* C16: with working storage, load after save(f) returns a FilterSet
\* structurally equal to f, for every f with four string fields.
C16_LoadAfterSave ==
  [][(/\ storageReadable
      /\ storageWritable
      /\ filters \in FilterSets
      /\ lastRequest.op = "save"
      /\ lastRequest'.op = "load")
       => /\ filters' = filters
          /\ Len(Members(filters')) = 4
          /\ \A k \in KeySet : Get(filters', k) = Get(filters, k)]_vars

\* a FilterSet with constrained and unconstrained fields came back from the slot
C16_Witness ==
  /\ storageReadable
  /\ storageWritable
  /\ lastRequest.op = "load"
  /\ Get(filters, "language") = Str("a")
  /\ Get(filters, "source") = Str("")
  /\ Get(filters, "year") = Str("b")
  /\ storage = Item(JSONstringify(filters))

\* C17: while a search invocation is in flight, isLoading is true
C17_LoadingCoversInFlight ==
  Pending # {} => isLoading

\* C18: a filter-change request starts exactly one search invocation
C18_OneSearchPerFilterChange ==
  [][FilterChangeStep => Cardinality(Started) = 1]_vars

\* C19: an accepted load-more request strictly increases the number of
\* displayed videos, to at most |allVideos|; |displayedVideos| <= visibleCount
\* in every reachable state.
C19_LoadMoreShowsMore ==
  /\ [](Len(displayedVideos) <= visibleCount)
  /\ [][LoadMoreStep =>
          /\ Len(displayedVideos') > Len(displayedVideos)
          /\ Len(displayedVideos') - Len(displayedVideos)
               <= Len(allVideos) - Len(displayedVideos)]_vars

\* a load-more that took the display from 10 to all 25 of a later ResultSet
C19_Witness ==
  /\ lastRequest.op = "loadMore"
  /\ Shown > 1
  /\ visibleCount = InitialVisibleCount + 2 * LoadMoreIncrement
  /\ Len(displayedVideos) = MaxResults

====
